---- MODULE Spec2Model ----
(***************************************************************************)
(* Model of app.py: a Streamlit script that bootstraps a persisted Chroma  *)
(* vector index (carregar_e_processar_documentos, memoised with            *)
(* st.cache_resource) and answers questions through a RetrievalQA chain.   *)
(*                                                                         *)
(* One script run (a page load or a submitted question) is one action.     *)
(* The external collaborators (PDF loader, splitter, embeddings, Chroma,   *)
(* the LLM) are modelled by what the script observes of them: the value    *)
(* they return, or the exception they raise at the call site.              *)
(***************************************************************************)
EXTENDS Integers, Sequences, FiniteSets, TLC

VARIABLES
    docs,               \* PDF files present in the directory "docs"
    pasta_db_vetorial,  \* the directory "banco_vetorial_chroma" on disk
    dotenv,             \* the GOOGLE_API_KEY entry of the file .env
    GOOGLE_API_KEY,     \* the variable in the environment of the running process
    cache_resource,     \* the st.cache_resource entry of the running process
    banco_de_vetores,   \* module variable of the last script run (line 71)
    pergunta_usuario,   \* module variable of the last script run (line 76)
    resultado,          \* module variable of the last script run (line 95)
    tela,               \* elements the last script run put on the page
    chamadas,           \* external calls the last script run made, in order
    erro,               \* exception caught by the last script run, or "nenhum"
    execucoes_corpo,    \* executions of the cached function's body, this process
    falhou_antes,       \* history: the run before the last failed while answering
    ultimo_banco        \* history: handle the latest bootstrap that returned gave

vars == << docs, pasta_db_vetorial, dotenv, GOOGLE_API_KEY, cache_resource,
           banco_de_vetores, pergunta_usuario, resultado, tela, chamadas,
           erro, execucoes_corpo, falhou_antes, ultimo_banco >>

----------------------------------------------------------------------------
(* Bounds of the model *)

\* pages of the larger PDF
MaxPaginas == 2
\* executions of the bootstrap body followed within one process
MaxExecucoes == 2

(* Program constants *)

\* search_kwargs={"k": 3}
K == 3
\* RecursiveCharacterTextSplitter(chunk_size=1000, ...)
chunk_size == 1000
\* RecursiveCharacterTextSplitter(..., chunk_overlap=100)
chunk_overlap == 100
\* doc.page_content[:250]
TamanhoTrecho == 250

----------------------------------------------------------------------------
(* The documents directory *)

Arquivos == {"a.pdf", "b.pdf"}

NumPaginas(f) == IF f = "a.pdf" THEN MaxPaginas ELSE 1

\* characters of text on page i of file f
TamanhoPagina(f, i) ==
    IF f = "a.pdf" THEN (IF i = 0 THEN 1900 ELSE 400) ELSE 950

Min(a, b) == IF a < b THEN a ELSE b

\* PyPDFDirectoryLoader("docs").load(): one record per page, tagged with the
\* path of its file and its page number
carregador_load(d) ==
    UNION { { [source |-> <<"docs", f>>, page |-> i, tam |-> TamanhoPagina(f, i)] :
                i \in 0 .. (NumPaginas(f) - 1) } : f \in d }

\* offsets at which a text of n characters is cut: windows of chunk_size
\* characters, each starting chunk_overlap characters before the end of the
\* previous one, until the text is covered
Inicios(n) ==
    LET passo == chunk_size - chunk_overlap
    IN  { j * passo : j \in { j \in 0 .. (n \div passo) :
                                \/ j = 0 /\ n > 0
                                \/ j > 0 /\ j * passo + chunk_overlap < n } }

\* divisor_texto.split_documents(documentos): every chunk keeps the source
\* and the page of the record it is cut from
split_documents(documentos) ==
    UNION { { [source |-> p.source, page |-> p.page, inicio |-> s,
               tam |-> Min(chunk_size, p.tam - s)] : s \in Inicios(p.tam) } :
            p \in documentos }

\* os.path.basename of a path given by its components
basename(caminho) == caminho[Len(caminho)]

----------------------------------------------------------------------------
(* Elements of the page *)

Elem(tipo, msg, fonte, pagina, n) ==
    [tipo |-> tipo, msg |-> msg, fonte |-> fonte, pagina |-> pagina, n |-> n]

Simples(tipo, msg) == Elem(tipo, msg, "", -1, -1)

\* lines 18-22
Cabecalho == << Simples("title", "Assistente de Manual do Sistema"),
                Simples("caption", "Faca uma pergunta sobre o manual") >>

MsgCarregando == Simples("info", "Carregando banco de dados de vetores existente...")
MsgCarregado  == Simples("success", "Banco de dados carregado com sucesso!")
MsgCriando    == Simples("info", "Criando um novo banco de dados de vetores...")
MsgCriado(n)  == Elem("success", "Novo banco de dados criado e salvo", "", -1, n)

\* lines 107-110: the three elements of the handler
\* mutant of MsgErro: a handler that shows a fixed text, not the exception's
MsgErro_SemDetalhe(e) ==
    << Elem("error", "Ocorreu um erro ao configurar a aplicacao.", "", -1, -1),
       Elem("error", "Detalhe do erro", "", -1, -1),
       Elem("warning", "Verifique se sua chave GOOGLE_API_KEY esta configurada corretamente no arquivo .env.", "", -1, -1) >>

AvisoChave ==
    Simples("warning", "Verifique se sua chave GOOGLE_API_KEY esta configurada corretamente no arquivo .env.")

MsgErro(e) == << Simples("error", "Ocorreu um erro ao configurar a aplicacao."),
                 Elem("error", "Detalhe do erro", e, -1, -1),
                 AvisoChave >>

----------------------------------------------------------------------------
(* What the environment decides in one script run *)

\* the call of the run that raises, if the run reaches it
Falhas == { "nenhuma", "loader", "splitter", "persist", "embed_docs", "open",
            "llm", "embed_query", "retrieve", "generate" }

\* GOOGLE_API_KEY, in the environment or in .env: a key the service accepts,
\* a key it rejects (found at the first request), or no key (found when a
\* client object is built)
Chaves == { "valida", "invalida", "ausente" }

\* line 15, load_dotenv(), run by every script run: a variable the
\* environment does not hold yet is set from .env; one it holds is kept
load_dotenv(ambiente, arquivo) ==
    IF ambiente = "ausente" THEN arquivo ELSE ambiente

\* what the user types in the input of line 76
Perguntas == { "instalacao" }

SemDisco == [existe |-> FALSE, chunks |-> {}]

SemCache == [preenchido |-> FALSE, banco |-> {}, msgs |-> << >>]

SemBanco == [definido |-> FALSE, chunks |-> {}]

SemResultado == [definido |-> FALSE, result |-> "", source_documents |-> << >>]

\* the text the generative model answers with
Respostas == { "Execute o instalador." }

\* what qa_chain({"query": ...}) returns: the generated text and the chunks
\* the retriever gave
Saida(texto, fontes) == [result |-> texto, source_documents |-> fontes]

SemSaida == Saida("", << >>)

\* outcome of a call: returned (ok) with a handle, or raised erro; disco is
\* the index directory it leaves, msgs what it displayed, passos what it called
Retorno(banco, disco, msgs, passos) ==
    [ok |-> TRUE, erro |-> "nenhum", banco |-> banco, disco |-> disco,
     msgs |-> msgs, passos |-> passos]

Excecao(e, disco, msgs, passos) ==
    [ok |-> FALSE, erro |-> e, banco |-> {}, disco |-> disco,
     msgs |-> msgs, passos |-> passos]

----------------------------------------------------------------------------
(* carregar_e_processar_documentos *)

\* mutant of RamoCarregar: a load branch that writes the directory anew
RamoCarregar_Reescreve(disco, falha) ==
    [ok |-> TRUE, erro |-> "nenhum", banco |-> {},
     disco |-> [existe |-> TRUE, chunks |-> {}],
     msgs |-> << MsgCarregando, MsgCarregado >>, passos |-> << "Chroma" >>]

\* mutant of RamoCarregar: a load branch that opens a store without the
\* persist directory, an empty one
RamoCarregar_SemDiretorio(disco, falha) ==
    [ok |-> TRUE, erro |-> "nenhum", banco |-> {}, disco |-> disco,
     msgs |-> << MsgCarregando, MsgCarregado >>, passos |-> << "Chroma" >>]

\* lines 43-46: the directory exists; open it
RamoCarregar(disco, falha) ==
    IF falha = "open"
    THEN Excecao("open", disco, << MsgCarregando >>, << "Chroma" >>)
    ELSE Retorno(disco.chunks, disco, << MsgCarregando, MsgCarregado >>,
                 << "Chroma" >>)

\* lines 60-64, Chroma.from_documents: the store is built on persist_directory
\* (which creates the directory), then the texts are embedded in one batch
\* and added
from_documents(textos, disco, chave, falha, msgs, passos) ==
    IF falha = "persist"
    THEN Excecao("persist", disco, msgs, passos)
    ELSE IF chave = "invalida"
    THEN Excecao("chave_invalida", [existe |-> TRUE, chunks |-> {}], msgs, passos)
    ELSE IF falha = "embed_docs"
    THEN Excecao("embed_docs", [existe |-> TRUE, chunks |-> {}], msgs, passos)
    ELSE Retorno(textos, [existe |-> TRUE, chunks |-> textos], msgs, passos)

\* lines 48-65: the directory does not exist; load, split, embed and persist
RamoCriar(disco, d, chave, falha) ==
    LET documentos == carregador_load(d)
        textos_divididos == split_documents(documentos)
        r == from_documents(textos_divididos, disco, chave, falha,
                            << MsgCriando >>,
                            << "load", "split_documents", "from_documents" >>)
    IN  IF falha = "loader"
        THEN Excecao("loader", disco, << MsgCriando >>, << "load" >>)
        ELSE IF falha = "splitter"
        THEN Excecao("splitter", disco, << MsgCriando >>,
                     << "load", "split_documents" >>)
        ELSE IF r.ok
        THEN [r EXCEPT !.msgs = Append(@, MsgCriado(Cardinality(documentos)))]
        ELSE r

\* mutant of Corpo: a body without the os.path.exists test of line 42
Corpo_SempreCria(disco, d, chave, falha) ==
    LET r == RamoCriar(disco, d, chave, falha)
    IN  IF chave = "ausente"
        THEN Excecao("chave_ausente", disco, << >>,
                     << "GoogleGenerativeAIEmbeddings" >>)
        ELSE [r EXCEPT !.passos = << "GoogleGenerativeAIEmbeddings" >> \o @]

\* lines 36-67: the body of the cached function
Corpo(disco, d, chave, falha) ==
    LET r == IF disco.existe THEN RamoCarregar(disco, falha)
                             ELSE RamoCriar(disco, d, chave, falha)
    IN  IF chave = "ausente"
        THEN Excecao("chave_ausente", disco, << >>,
                     << "GoogleGenerativeAIEmbeddings" >>)
        ELSE [r EXCEPT !.passos = << "GoogleGenerativeAIEmbeddings" >> \o @]

\* mutant of carregar_e_processar_documentos: the function without its
\* decorator
carregar_sem_cache(cache, disco, d, chave, falha) ==
    Corpo(disco, d, chave, falha)

\* mutant of carregar_e_processar_documentos: a cache that returns the
\* handle and shows nothing of what the body displayed
carregar_sem_replay(cache, disco, d, chave, falha) ==
    IF cache.preenchido
    THEN Retorno(cache.banco, disco, << >>, << >>)
    ELSE Corpo(disco, d, chave, falha)

\* lines 28-29, @st.cache_resource: a filled entry returns its handle and
\* replays the elements its body displayed; otherwise the body runs
carregar_e_processar_documentos(cache, disco, d, chave, falha) ==
    IF cache.preenchido
    THEN Retorno(cache.banco, disco, cache.msgs, << >>)
    ELSE Corpo(disco, d, chave, falha)

\* the entry after the call: only a body that returned fills it
AposChamada(cache, r) ==
    IF ~cache.preenchido /\ r.ok
    THEN [preenchido |-> TRUE, banco |-> r.banco, msgs |-> r.msgs]
    ELSE cache

----------------------------------------------------------------------------
(* The answering pipeline, lines 79-105 *)

\* the orderings of n distinct chunks of the index
Ordenacoes(banco, n) ==
    { f \in [1 .. n -> banco] : \A i, j \in 1 .. n : f[i] = f[j] => i = j }

\* mutant of Recuperar: a retriever without the limit k
Recuperar_SemLimite(banco) == Ordenacoes(banco, Cardinality(banco))

\* retriever with search_kwargs={"k": 3}: the k chunks of the index nearest
\* to the question, nearest first. Which chunks are nearest, and in which
\* order, is the vector store's answer: any k distinct chunks of the index
\* in any order, all of them when the index holds fewer than k
Recuperar(banco) == Ordenacoes(banco, Min(K, Cardinality(banco)))

\* lines 98-105: header, answer, and one info and one excerpt per source
MostrarFontes(fontes) ==
    [i \in 1 .. (2 * Len(fontes)) |->
        LET doc == fontes[(i + 1) \div 2]
        IN  IF i % 2 = 1
            THEN Elem("info", "Fonte", basename(doc.source), doc.page, -1)
            ELSE Elem("markdown", "trecho", "", doc.inicio,
                      Min(TamanhoTrecho, doc.tam))]

\* texto is resultado["result"], the text the model generated
MostrarResposta(texto, fontes) ==
    << Simples("header", "Resposta:"), Simples("write", texto),
       Simples("expander", "Ver fontes da resposta") >> \o MostrarFontes(fontes)

\* saida is what qa_chain returned at line 95
Respondido(saida, tela_, passos) ==
    [ok |-> TRUE, erro |-> "nenhum",
     resultado |-> [definido |-> TRUE, result |-> saida.result,
                    source_documents |-> saida.source_documents],
     tela |-> tela_, passos |-> passos]

\* mutant of NaoRespondido: a failed question that still yields a result
\* and the header of an answer
NaoRespondido_Parcial(e, passos) ==
    [ok |-> FALSE, erro |-> e,
     resultado |-> [definido |-> TRUE, result |-> "",
                    source_documents |-> << >>],
     tela |-> << Simples("header", "Resposta:") >>, passos |-> passos]

NaoRespondido(e, passos) ==
    [ok |-> FALSE, erro |-> e, resultado |-> SemResultado, tela |-> << >>,
     passos |-> passos]

\* lines 83-105: build the model and the chain, run the chain (embed the
\* question, retrieve, generate), display what the chain returned
Responder(q, chave, falha, saida) ==
    IF chave = "ausente"
    THEN NaoRespondido("chave_ausente", << "ChatGoogleGenerativeAI" >>)
    ELSE IF falha = "llm"
    THEN NaoRespondido("llm", << "ChatGoogleGenerativeAI" >>)
    ELSE IF chave = "invalida"
    THEN NaoRespondido("chave_invalida",
            << "ChatGoogleGenerativeAI", "from_chain_type", "embed_query" >>)
    ELSE IF falha = "embed_query"
    THEN NaoRespondido("embed_query",
            << "ChatGoogleGenerativeAI", "from_chain_type", "embed_query" >>)
    ELSE IF falha = "retrieve"
    THEN NaoRespondido("retrieve",
            << "ChatGoogleGenerativeAI", "from_chain_type", "embed_query",
               "similarity_search" >>)
    ELSE IF falha = "generate"
    THEN NaoRespondido("generate",
            << "ChatGoogleGenerativeAI", "from_chain_type", "embed_query",
               "similarity_search", "generate" >>)
    ELSE Respondido(saida, MostrarResposta(saida.result, saida.source_documents),
            << "ChatGoogleGenerativeAI", "from_chain_type", "embed_query",
               "similarity_search", "generate" >>)

----------------------------------------------------------------------------
(* One run of the script, lines 14-110 *)

\* lines 79-105 for the question typed, nothing for an empty input
Atender(q, chave, falha, saida) ==
    IF q = ""
    THEN [ok |-> TRUE, erro |-> "nenhum", resultado |-> SemResultado,
          tela |-> << >>, passos |-> << >>]
    ELSE Responder(q, chave, falha, saida)

\* mutant of Prossegue: a script that goes on to the question whatever
\* line 71 did
Prossegue_Sempre(boot) == TRUE

\* lines 70-79: the statements after line 71 run when the call returned; an
\* exception leaves the try block for the handler of line 107
Prossegue(boot) == boot.ok

\* lines 70-110: the try block and its handler. boot is the outcome of line
\* 71, resp the outcome of lines 76-105
Script(q, boot, resp) ==
    /\ pasta_db_vetorial' = boot.disco
    /\ cache_resource' = AposChamada(cache_resource, boot)
    /\ execucoes_corpo' = IF boot.passos = << >> THEN execucoes_corpo
                                                 ELSE execucoes_corpo + 1
    /\ falhou_antes' = (banco_de_vetores.definido /\ erro # "nenhum")
    /\ ultimo_banco' = IF boot.ok THEN [definido |-> TRUE, chunks |-> boot.banco]
                                  ELSE ultimo_banco
    /\ banco_de_vetores' = IF boot.ok THEN [definido |-> TRUE, chunks |-> boot.banco]
                                      ELSE SemBanco
    /\ IF ~Prossegue(boot)
       THEN /\ pergunta_usuario' = ""
            /\ resultado' = SemResultado
            /\ chamadas' = boot.passos
            /\ erro' = boot.erro
            /\ tela' = Cabecalho \o boot.msgs \o MsgErro(boot.erro)
       ELSE /\ pergunta_usuario' = q
            /\ resultado' = resp.resultado
            /\ chamadas' = boot.passos \o << "text_input" >> \o resp.passos
            /\ erro' = resp.erro
            /\ tela' = Cabecalho \o boot.msgs
                         \o << Simples("text_input", "Digite sua duvida sobre o sistema:") >>
                         \o (IF resp.ok THEN resp.tela ELSE MsgErro(resp.erro))
    /\ UNCHANGED << docs, dotenv >>

\* the body may run in this script run
PodeExecutar == cache_resource.preenchido \/ execucoes_corpo < MaxExecucoes

\* a failure is an input of the run only at a call the run reaches: there
\* it is the exception the run catches
Alcancada(falha, boot, resp) ==
    falha = "nenhuma" \/ boot.erro = falha \/ (boot.ok /\ resp.erro = falha)

\* the page is loaded, or rerun, with the input empty
CarregarPagina(falha) ==
    /\ PodeExecutar
    /\ LET chave == load_dotenv(GOOGLE_API_KEY, dotenv)
           boot == carregar_e_processar_documentos(cache_resource,
                       pasta_db_vetorial, docs, chave, falha)
           resp == Atender("", chave, falha, SemSaida)
       IN  /\ Alcancada(falha, boot, resp)
           /\ GOOGLE_API_KEY' = chave
           /\ Script("", boot, resp)

\* the user submits a question: the script reruns with it
EnviarPergunta(q, falha) ==
    /\ PodeExecutar
    /\ LET chave == load_dotenv(GOOGLE_API_KEY, dotenv)
           boot == carregar_e_processar_documentos(cache_resource,
                       pasta_db_vetorial, docs, chave, falha)
           tenta == Atender(q, chave, falha, SemSaida)
       IN  /\ Alcancada(falha, boot, tenta)
           /\ GOOGLE_API_KEY' = chave
           \* what the chain returns matters only to a run that gets to it
           /\ \E saida \in (IF boot.ok /\ tenta.ok
                            THEN { Saida(texto, fontes) :
                                     texto \in Respostas,
                                     fontes \in Recuperar(boot.banco) }
                            ELSE { SemSaida }) :
                  Script(q, boot, Atender(q, chave, falha, saida))

\* the server is stopped and started again, in an environment that holds
\* the variable or not: the cache and the module state are the process's,
\* the disk stays
ReiniciarProcesso(chave) ==
    /\ GOOGLE_API_KEY' = chave
    /\ cache_resource' = SemCache
    /\ banco_de_vetores' = SemBanco
    /\ pergunta_usuario' = ""
    /\ resultado' = SemResultado
    /\ tela' = << >>
    /\ chamadas' = << >>
    /\ erro' = "nenhum"
    /\ execucoes_corpo' = 0
    /\ falhou_antes' = FALSE
    /\ UNCHANGED << docs, pasta_db_vetorial, dotenv, ultimo_banco >>

\* someone adds or removes PDFs in docs/
AlterarDocs(d) ==
    /\ d # docs
    /\ docs' = d
    /\ UNCHANGED << pasta_db_vetorial, dotenv, GOOGLE_API_KEY, cache_resource,
                    banco_de_vetores, pergunta_usuario, resultado, tela,
                    chamadas, erro, execucoes_corpo, falhou_antes,
                    ultimo_banco >>

\* someone writes, changes or removes the key in .env
EditarDotenv(c) ==
    /\ c # dotenv
    /\ dotenv' = c
    /\ UNCHANGED << docs, pasta_db_vetorial, GOOGLE_API_KEY, cache_resource,
                    banco_de_vetores, pergunta_usuario, resultado, tela,
                    chamadas, erro, execucoes_corpo, falhou_antes,
                    ultimo_banco >>

Init ==
    /\ docs \in SUBSET Arquivos
    /\ pasta_db_vetorial = SemDisco
    /\ dotenv \in Chaves
    /\ GOOGLE_API_KEY \in Chaves
    /\ cache_resource = SemCache
    /\ banco_de_vetores = SemBanco
    /\ pergunta_usuario = ""
    /\ resultado = SemResultado
    /\ tela = << >>
    /\ chamadas = << >>
    /\ erro = "nenhum"
    /\ execucoes_corpo = 0
    /\ falhou_antes = FALSE
    /\ ultimo_banco = SemBanco

Next ==
    \/ \E falha \in Falhas : CarregarPagina(falha)
    \/ \E q \in Perguntas, falha \in Falhas : EnviarPergunta(q, falha)
    \/ \E chave \in Chaves : ReiniciarProcesso(chave)
    \/ \E d \in SUBSET Arquivos : AlterarDocs(d)
    \/ \E c \in Chaves : EditarDotenv(c)

Spec == Init /\ [][Next]_vars

----------------------------------------------------------------------------
(* Observations of the last script run, and of a step *)

Chamou(c) == \E i \in 1 .. Len(chamadas) : chamadas[i] = c

Mostrou(m) == \E i \in 1 .. Len(tela) : tela[i] = m

\* the run called the loader, the splitter or the batch-embed/persist call
Ingeriu == Chamou("load") \/ Chamou("split_documents") \/ Chamou("from_documents")

\* the run displayed part of an answer
MostrouResposta ==
    \E i \in 1 .. Len(tela) : tela[i].tipo \in { "header", "write", "expander", "markdown" }

\* the run displayed a source line
LinhasDeFonte == { i \in 1 .. Len(tela) : tela[i].tipo = "info" /\ tela[i].msg = "Fonte" }

\* what the documents directory would be ingested into now
IndiceDeDocs == split_documents(carregador_load(docs))

\* this step is a script run
Rodou == chamadas' # << >> /\ docs' = docs /\ dotenv' = dotenv

\* this step is a script run that executed the body of the cached function
RodouCorpo == execucoes_corpo' = execucoes_corpo + 1

ErrosDeChave == { "chave_ausente", "chave_invalida" }

----------------------------------------------------------------------------
(* C1 *)

\* C1: when the body of the bootstrap runs and the index directory already
\* exists, the run calls neither the loader, nor the splitter, nor
\* from_documents, whatever docs/ holds, and the handle it returns is a
\* handle to the index that was on disk; the only way it returns no handle
\* is an exception from building the embeddings client or from opening the
\* directory.
C1_CarregaSemIngerir ==
    [][ (pasta_db_vetorial.existe /\ RodouCorpo) =>
            /\ ~Ingeriu'
            /\ banco_de_vetores'.definido =>
                   banco_de_vetores'.chunks = pasta_db_vetorial.chunks
            /\ banco_de_vetores'.definido \/ erro' \in { "chave_ausente", "open" }
      ]_vars

\* a run that opened an index which no longer matches a non-empty docs/
C1_Witness ==
    /\ Chamou("Chroma")
    /\ banco_de_vetores.definido
    /\ docs # {}
    /\ banco_de_vetores.chunks # IndiceDeDocs

----------------------------------------------------------------------------
(* C2 *)

\* C2, as stated: within one process the body of the bootstrap executes at
\* most once, over any sequence of script runs.
C2_NoMaximoUmaVez == execucoes_corpo <= 1

\* C2, amended: once the body has returned a handle in a process, no later
\* script run of that process executes it again and each gets the cached
\* handle; while no execution has returned (the body raised, which fills
\* no cache entry), every script run executes the body again.
C2_UmaVezAposRetorno ==
    [][ /\ (cache_resource.preenchido /\ Rodou) =>
               /\ execucoes_corpo' = execucoes_corpo
               /\ ~Chamou("GoogleGenerativeAIEmbeddings")'
               /\ cache_resource' = cache_resource
               /\ banco_de_vetores' =
                      [definido |-> TRUE, chunks |-> cache_resource.banco]
        /\ (~cache_resource.preenchido /\ Rodou) =>
               /\ RodouCorpo
               /\ cache_resource'.preenchido <=> banco_de_vetores'.definido
      ]_vars

\* the body raised once, then returned, and the last run was served from
\* the cache
C2_Witness ==
    /\ execucoes_corpo = 2
    /\ cache_resource.preenchido
    /\ ~Chamou("GoogleGenerativeAIEmbeddings")
    /\ Chamou("text_input")

----------------------------------------------------------------------------
(* C3 *)

\* C3: the index directory changes only in a step that executes the body of
\* the bootstrap with the directory absent and calls from_documents; once
\* the directory exists, no bootstrap and no question, in this process or
\* a later one, changes it.
C3_SoCriarEscreve ==
    [][ pasta_db_vetorial' # pasta_db_vetorial =>
            /\ ~pasta_db_vetorial.existe
            /\ RodouCorpo
            /\ Chamou("from_documents")'
      ]_vars

\* a question answered from an index that a load branch opened, with docs/
\* changed since the index was written
C3_Witness ==
    /\ pasta_db_vetorial.existe
    /\ pasta_db_vetorial.chunks # {}
    /\ pasta_db_vetorial.chunks # IndiceDeDocs
    /\ Chamou("Chroma")
    /\ resultado.definido

----------------------------------------------------------------------------
(* C4 *)

\* C4: a run whose bootstrap returned no handle renders no question input,
\* processes no question and calls neither the model, nor the retriever,
\* nor the generator; a bootstrap failure is shown as an error.
C4_FalhaNaoAtende ==
    ~banco_de_vetores.definido =>
        /\ ~Chamou("text_input")
        /\ ~Chamou("ChatGoogleGenerativeAI")
        /\ ~Chamou("embed_query")
        /\ ~Chamou("similarity_search")
        /\ ~Chamou("generate")
        /\ pergunta_usuario = ""
        /\ ~resultado.definido
        /\ ~MostrouResposta
        /\ chamadas # << >> => erro # "nenhum"

\* a run whose bootstrap failed in loading, splitting, embedding or persisting
C4_Witness ==
    /\ ~banco_de_vetores.definido
    /\ erro \in { "loader", "splitter", "embed_docs", "persist" }
    /\ Chamou("load")

----------------------------------------------------------------------------
(* C5 *)

\* the last run got its handle and then failed while answering
FalhouAoResponder == banco_de_vetores.definido /\ erro # "nenhum"

\* C5: a run that fails while answering displays no answer and keeps the
\* cache entry with its handle; the next script run of the process does not
\* execute the bootstrap body and works with the same handle.
C5_FalhaSoDaPergunta ==
    /\ [](FalhouAoResponder =>
            /\ ~resultado.definido
            /\ ~MostrouResposta
            /\ cache_resource.preenchido
            /\ cache_resource.banco = banco_de_vetores.chunks)
    /\ [][ (FalhouAoResponder /\ Rodou) =>
              /\ execucoes_corpo' = execucoes_corpo
              /\ banco_de_vetores' = banco_de_vetores
         ]_vars

\* a question answered right after a question that failed, the body having
\* run once
C5_Witness ==
    /\ falhou_antes
    /\ erro = "nenhum"
    /\ resultado.definido
    /\ pergunta_usuario # ""
    /\ execucoes_corpo = 1

----------------------------------------------------------------------------
(* C6 *)

\* C6: a run that raised ends with the three elements of the handler, the
\* second carrying the raw message of the exception raised; it displays no
\* part of an answer, has no result, and made no call twice; a run that did
\* not raise displays no error.
C6_ErroMostrado ==
    /\ erro # "nenhum" =>
          /\ Len(tela) >= 3
          /\ SubSeq(tela, Len(tela) - 2, Len(tela)) = MsgErro(erro)
          /\ tela[Len(tela) - 1].fonte = erro
          /\ ~resultado.definido
          /\ ~MostrouResposta
          /\ \A i, j \in 1 .. Len(chamadas) : chamadas[i] = chamadas[j] => i = j
    /\ erro = "nenhum" =>
          \A i \in 1 .. Len(tela) : tela[i].tipo \notin { "error", "warning" }

\* a generation failure displayed with its message
C6_Witness ==
    /\ erro = "generate"
    /\ Chamou("generate")
    /\ Mostrou(Elem("error", "Detalhe do erro", "generate", -1, -1))

----------------------------------------------------------------------------
(* C7 *)

\* C7: an answered question cites at most K sources, each a chunk of the
\* index on disk, and the source lines displayed are exactly those chunks'
\* own file name and page, one line per cited chunk, in the order cited.
C7_FontesDoIndice ==
    resultado.definido =>
        LET sd == resultado.source_documents
        IN  /\ Len(sd) <= K
            /\ \A i \in 1 .. Len(sd) : sd[i] \in pasta_db_vetorial.chunks
            /\ Cardinality(LinhasDeFonte) = Len(sd)
            /\ \A i \in 1 .. Len(sd) :
                   LET j == Len(tela) - 2 * Len(sd) + 2 * i - 1
                   IN  /\ j \in LinhasDeFonte
                       /\ tela[j].fonte = basename(sd[i].source)
                       /\ tela[j].pagina = sd[i].page
            /\ \A j \in LinhasDeFonte :
                   \E c \in pasta_db_vetorial.chunks :
                       /\ tela[j].fonte = c.source[2]
                       /\ tela[j].pagina = c.page

\* K sources cited from an index that holds more than K chunks
C7_Witness ==
    /\ resultado.definido
    /\ Len(resultado.source_documents) = K
    /\ Cardinality(pasta_db_vetorial.chunks) > K

----------------------------------------------------------------------------
(* C8 *)

\* C8: once a bootstrap has returned an index, every later bootstrap that
\* returns, in the same process or a later one, returns an index with the
\* same chunks and calls neither the loader, nor the splitter, nor
\* from_documents (with docs/ unchanged or not).
C8_Idempotente ==
    [][ (ultimo_banco.definido /\ Rodou /\ banco_de_vetores'.definido) =>
            /\ banco_de_vetores'.chunks = ultimo_banco.chunks
            /\ ~Ingeriu'
      ]_vars

\* a bootstrap that loaded, from an existing directory, the non-empty index
\* an earlier bootstrap made of the same docs/
C8_Witness ==
    /\ Chamou("Chroma")
    /\ banco_de_vetores.definido
    /\ banco_de_vetores.chunks # {}
    /\ banco_de_vetores.chunks = IndiceDeDocs
    /\ ultimo_banco = banco_de_vetores

----------------------------------------------------------------------------
(* C9 *)

\* C9: a bootstrap that fails on the credential shows the error with the
\* hint naming GOOGLE_API_KEY and leaves the index directory as it found it
\* (no directory where there was none).
C9_SemIndiceParcial ==
    [][ (RodouCorpo /\ ~banco_de_vetores'.definido /\ erro' \in ErrosDeChave) =>
            /\ Mostrou(AvisoChave)'
            /\ pasta_db_vetorial' = pasta_db_vetorial
      ]_vars

----------------------------------------------------------------------------
(* C10 *)

\* C10, as stated: a run whose bootstrap returns while the index directory
\* exists (a second run, in the same process or a fresh one) shows the
\* "loaded existing database" message.
C10_SegundaMostraCarregado ==
    [][ (pasta_db_vetorial.existe /\ Rodou /\ banco_de_vetores'.definido) =>
            Mostrou(MsgCarregado)'
      ]_vars

\* C10, amended: a bootstrap whose body executes with no index directory
\* takes the create branch: if it returns, it has ingested docs/, created
\* the index and shown the "new database created" message and not the
\* "loaded" one; if it raises, it has shown neither and has left the
\* directory absent or, when from_documents raised after building the
\* store, present and empty. A bootstrap whose body executes with the
\* directory present (a fresh process, or a process none of whose executions
\* has returned) and returns has opened the existing index without the
\* loader and shown the "loaded existing database" message. A run of a
\* process whose cache is filled executes neither branch and shows again
\* what the execution that filled the cache showed.
C10_PrimeiraCriaSegundaCarrega ==
    [][ /\ (~pasta_db_vetorial.existe /\ RodouCorpo /\ banco_de_vetores'.definido) =>
               /\ Chamou("load")' /\ Chamou("split_documents")'
               /\ Chamou("from_documents")'
               /\ pasta_db_vetorial' = [existe |-> TRUE, chunks |-> IndiceDeDocs]
               /\ Mostrou(MsgCriado(Cardinality(carregador_load(docs))))'
               /\ ~Mostrou(MsgCarregado)'
        /\ (~pasta_db_vetorial.existe /\ RodouCorpo /\ ~banco_de_vetores'.definido) =>
               /\ ~Mostrou(MsgCarregado)'
               /\ \A i \in 1 .. Len(tela') : tela'[i].tipo # "success"
               /\ \/ pasta_db_vetorial' = pasta_db_vetorial
                  \/ /\ pasta_db_vetorial' = [existe |-> TRUE, chunks |-> {}]
                     /\ Chamou("from_documents")'
        /\ (pasta_db_vetorial.existe /\ RodouCorpo /\ banco_de_vetores'.definido) =>
               /\ ~Ingeriu'
               /\ Chamou("Chroma")'
               /\ pasta_db_vetorial' = pasta_db_vetorial
               /\ banco_de_vetores'.chunks = pasta_db_vetorial.chunks
               /\ Mostrou(MsgCarregado)'
               /\ ~Mostrou(MsgCriando)'
        /\ (cache_resource.preenchido /\ Rodou) =>
               /\ ~Ingeriu' /\ ~Chamou("Chroma")'
               /\ \A m \in { MsgCarregando, MsgCarregado, MsgCriando } :
                      Mostrou(m)' <=> (\E i \in 1 .. Len(cache_resource.msgs) :
                                           cache_resource.msgs[i] = m)
               /\ SubSeq(tela', Len(Cabecalho) + 1,
                         Len(Cabecalho) + Len(cache_resource.msgs)) = cache_resource.msgs
      ]_vars

\* a second run in the process that created the index: served from the
\* cache, showing the "new database created" message again
C10_Witness ==
    /\ execucoes_corpo = 1
    /\ cache_resource.preenchido
    /\ ~Chamou("GoogleGenerativeAIEmbeddings")
    /\ Chamou("text_input")
    /\ Mostrou(MsgCriando)
    /\ ~Mostrou(MsgCarregado)
    /\ pasta_db_vetorial.existe

====
